---- MODULE Spec2Model ----
(***************************************************************************)
(* Model of src/main.py: the TIDAL playlist import script.                 *)
(*                                                                         *)
(* The script is sequential: authenticate() -> check_login guard ->        *)
(* load_library() -> add_songs_to_playlists() (which calls                 *)
(* get_or_create_playlists()).  The remote service (tidalapi session,      *)
(* user, playlists, catalog search) is the environment: its answers are    *)
(* drawn nondeterministically, its state (the remote playlists) is part of *)
(* the model's state.                                                      *)
(*                                                                         *)
(* Text that the code lowers or strips (playlist, track, artist names) is  *)
(* a sequence of one-character strings.  Python values that cross the JSON *)
(* boundary are tagged records (Str, Num, None, DateTime).                 *)
(***************************************************************************)
EXTENDS Integers, Sequences, FiniteSets, TLC

VARIABLES
    pc,               \* position of the script
    tokenFile,        \* TOKEN_FILE on disk: [exists, text]
    session,          \* the tidalapi.Session object of authenticate()
    tidal_csv,        \* rows of "My TIDAL Library.csv"
    spotify_csv,      \* rows of "My Spotify Library.csv"
    remote,           \* the user's remote playlists: Seq([name, tracks])
    song_data,        \* the frame returned by load_library()
    playlist_names,   \* the argument of get_or_create_playlists
    existing_playlists, \* local of get_or_create_playlists (line 69)
    playlists,        \* the lowercased-name -> playlist mapping (line 70 / 86)
    n,                \* loop index over playlist_names (line 72)
    r,                \* loop index over song_data rows (line 89)
    not_found_tracks, \* the unmatched list (line 87)
    report,           \* NOT_FOUND_FILE on disk: [exists, rows]
    events            \* history of the calls made on the remote service and the disk

vars == <<pc, tokenFile, session, tidal_csv, spotify_csv, remote, song_data,
          playlist_names, existing_playlists, playlists, n, r, not_found_tracks,
          report, events>>

authVars   == <<tokenFile, session>>
inputVars  == <<tidal_csv, spotify_csv>>
importVars == <<remote, song_data, playlist_names, existing_playlists, playlists,
                n, r, not_found_tracks, report>>

-----------------------------------------------------------------------------
(* Bounds of the model *)

\* Largest total number of rows in the two CSV files together.
MaxRows == 2

\* Resolution of a datetime: ticks per second (sub-second precision exists).
TicksPerSecond == 2

-----------------------------------------------------------------------------
(* Text: str.lower() and str.strip() *)

LowerChar(c) ==
    CASE c = "A" -> "a"
      [] c = "S" -> "s"
      [] c = "T" -> "t"
      [] c = "X" -> "x"
      [] c = "Y" -> "y"
      [] c = "Q" -> "q"
      [] OTHER   -> c

\* str.lower()
Lower(s) == [k \in 1..Len(s) |-> LowerChar(s[k])]

IsSpace(c) == c \in {" ", "\t"}

RECURSIVE LStrip(_)
LStrip(s) == IF s # <<>> /\ IsSpace(Head(s)) THEN LStrip(Tail(s)) ELSE s

RECURSIVE RStrip(_)
RStrip(s) ==
    IF s # <<>> /\ IsSpace(s[Len(s)]) THEN RStrip(SubSeq(s, 1, Len(s) - 1)) ELSE s

\* str.strip()
Strip(s) == RStrip(LStrip(s))

-----------------------------------------------------------------------------
(* Python values and JSON text *)

None        == [t |-> "None"]
Str(s)      == [t |-> "str", v |-> s]
Num(k)      == [t |-> "int", v |-> k]
DateTime(k) == [t |-> "datetime", v |-> k]   \* k ticks after the epoch

\* JSON text is a sequence of lexemes.
Punct(c)  == [t |-> "punct", v |-> c]
JStr(s)   == [t |-> "jstring", v |-> s]
JNum(k)   == [t |-> "jnumber", v |-> k]
JNull     == [t |-> "jnull"]

\* json.dump of a scalar
JsonScalar(x) ==
    CASE x.t = "None" -> JNull
      [] x.t = "str"  -> JStr(x.v)
      [] x.t = "int"  -> JNum(x.v)

RECURSIVE JsonMembers(_)
JsonMembers(items) ==
    IF items = <<>> THEN <<>>
    ELSE <<JStr(items[1][1]), Punct(":"), JsonScalar(items[1][2])>>
         \o (IF Len(items) > 1 THEN <<Punct(",")>> ELSE <<>>)
         \o JsonMembers(Tail(items))

\* json.dump of a dict given as its (key, value) items in insertion order
JsonDump(items) == <<Punct("{")>> \o JsonMembers(items) \o <<Punct("}")>>

IsJsonScalar(tok) == tok.t \in {"jnull", "jstring", "jnumber"}

PyScalar(tok) ==
    CASE tok.t = "jnull"   -> None
      [] tok.t = "jstring" -> Str(tok.v)
      [] tok.t = "jnumber" -> Num(tok.v)

JsonError == [ok |-> FALSE]
JsonOk(x) == [ok |-> TRUE, value |-> x]

\* the members of an object after "{", up to and including "}"; d is the dict so far
RECURSIVE ParseMembers(_, _)
ParseMembers(toks, d) ==
    IF Len(toks) < 4 THEN JsonError
    ELSE IF ~(toks[1].t = "jstring" /\ toks[2] = Punct(":") /\ IsJsonScalar(toks[3]))
    THEN JsonError
    ELSE LET d2 == [k \in DOMAIN d \cup {toks[1].v} |->
                        IF k = toks[1].v THEN PyScalar(toks[3]) ELSE d[k]]
         IN  IF toks[4] = Punct("}")
             THEN (IF Len(toks) = 4 THEN JsonOk([t |-> "dict", v |-> d2]) ELSE JsonError)
             ELSE IF toks[4] = Punct(",")
             THEN ParseMembers(SubSeq(toks, 5, Len(toks)), d2)
             ELSE JsonError

\* json.load: a scalar or an object of scalars; anything else is a JSONDecodeError
JsonLoad(toks) ==
    IF toks = <<>> THEN JsonError
    ELSE IF Len(toks) = 1 /\ IsJsonScalar(toks[1]) THEN JsonOk(PyScalar(toks[1]))
    ELSE IF toks[1] # Punct("{") THEN JsonError
    ELSE IF Len(toks) = 2 /\ toks[2] = Punct("}")
    THEN JsonOk([t |-> "dict", v |-> [k \in {} |-> None]])
    ELSE ParseMembers(Tail(toks), [k \in {} |-> None])

-----------------------------------------------------------------------------
(* Credential store: save_token, load_token *)

NoFile     == [exists |-> FALSE, text |-> <<>>]
FileOf(tx) == [exists |-> TRUE, text |-> tx]

\* round(x) in place of int(x): to the nearest second, halves away from zero
IntOfTimestampRounded(ticks) ==
    IF ticks >= 0 THEN (2 * ticks + TicksPerSecond) \div (2 * TicksPerSecond)
    ELSE -((2 * (-ticks) + TicksPerSecond) \div (2 * TicksPerSecond))

\* int(x) of a float number of seconds given in ticks: truncation toward zero
IntOfTimestamp(ticks) ==
    IF ticks >= 0 THEN ticks \div TicksPerSecond
    ELSE -((-ticks) \div TicksPerSecond)

\* session.expiry_time.timestamp() needs a datetime (line 15)
SaveTokenRaises(s) == s.expiry_time.t # "datetime"

\* token_data of save_token (lines 11-16)
TokenData(s) ==
    << <<"token_type", s.token_type>>,
       <<"access_token", s.access_token>>,
       <<"refresh_token", s.refresh_token>>,
       <<"expiry_time", Num(IntOfTimestamp(s.expiry_time.v))>> >>

\* the file save_token writes (lines 17-18)
save_token(s) == FileOf(JsonDump(TokenData(s)))

LoadNone     == [kind |-> "None"]
LoadRaise    == [kind |-> "raise"]
LoadData(d)  == [kind |-> "data", d |-> d]

\* load_token (lines 21-31): None, a dict, or an uncaught TypeError when the
\* JSON value is a number or null ("access_token" in 5)
load_token(f) ==
    IF ~(f.exists /\ Len(f.text) > 0) THEN LoadNone
    ELSE LET p == JsonLoad(f.text)
         IN  IF ~p.ok THEN LoadNone
             ELSE IF p.value.t \in {"int", "None"} THEN LoadRaise
             ELSE IF p.value.t = "str" THEN LoadNone
             ELSE IF "access_token" \in DOMAIN p.value.v
                     /\ "expiry_time" \in DOMAIN p.value.v
                  THEN LoadData(p.value.v)
                  ELSE LoadNone

-----------------------------------------------------------------------------
(* The session object and the environment's answers to authenticate() *)

\* tidalapi.Session() (line 35): nothing set, not logged in
NewSession ==
    [logged_in |-> FALSE, token_type |-> None, access_token |-> None,
     refresh_token |-> None, expiry_time |-> None]

\* what a successful interactive login may leave in the session
LoginSessions ==
    { [logged_in |-> TRUE, token_type |-> Str("Bearer"), access_token |-> Str(a),
       refresh_token |-> rt, expiry_time |-> DateTime(e)] :
         a \in {"at1", "at2"}, rt \in {Str("rt1"), None}, e \in {-3, 6, 7} }

\* a session as some earlier run's login left it
OldSession ==
    [logged_in |-> TRUE, token_type |-> Str("Bearer"), access_token |-> Str("at0"),
     refresh_token |-> Str("rt0"), expiry_time |-> DateTime(5)]

\* contents TOKEN_FILE may have when the script starts
TokenFiles ==
    { NoFile,
      FileOf(<<>>),
      FileOf(<<Punct("{")>>),
      FileOf(<<JNum(5)>>),
      FileOf(<<JStr("x")>>),
      FileOf(JsonDump(<<>>)),
      save_token(OldSession),
      FileOf(JsonDump(<< <<"access_token", Str("at0")>>, <<"expiry_time", Num(2)>> >>)),
      FileOf(JsonDump(<< <<"token_type", Str("Bearer")>>, <<"refresh_token", Str("rt0")>>,
                         <<"expiry_time", Num(2)>> >>)),
      FileOf(JsonDump(<< <<"token_type", Str("Bearer")>>, <<"access_token", Str("at0")>>,
                         <<"refresh_token", None>>, <<"expiry_time", None>> >>)) }

\* evaluating the arguments of load_oauth_session (lines 41-44) raises: a
\* KeyError for a missing field, a TypeError for int(None).  (The files of
\* TokenFiles hold an integer or null expiry_time.)
RestoreArgsRaise(d) ==
    \/ ~({"token_type", "access_token", "refresh_token"} \subseteq DOMAIN d)
    \/ d["expiry_time"].t # "int"

\* the session after load_oauth_session stored its arguments (lines 40-45):
\* expiry_time is the int that line 44 passes
RestoredSession(d, ok) ==
    [logged_in |-> ok, token_type |-> d["token_type"], access_token |-> d["access_token"],
     refresh_token |-> d["refresh_token"], expiry_time |-> Num(d["expiry_time"].v)]

\* session.check_login()
check_login(s) == s.logged_in

Event(e) == events' = Append(events, e)

-----------------------------------------------------------------------------
(* authenticate() (lines 33-58) and the top-level guard (lines 130-136) *)

\* lines 35-48: the stored token restores the session and check_login confirms it
AuthRestoreOk ==
    /\ pc = "authenticate"
    /\ LET td == load_token(tokenFile)
       IN  /\ td.kind = "data"
           /\ ~RestoreArgsRaise(td.d)
           /\ session' = RestoredSession(td.d, TRUE)
    /\ pc' = "guard"
    /\ Event([op |-> "load_oauth_session", ok |-> TRUE])
    /\ UNCHANGED <<tokenFile, inputVars, importVars>>

\* lines 35-50: a token was loaded but restoring raised or check_login said no
AuthRestoreFail ==
    /\ pc = "authenticate"
    /\ LET td == load_token(tokenFile)
       IN  /\ td.kind = "data"
           /\ \/ /\ RestoreArgsRaise(td.d)
                 /\ session' = NewSession
              \/ /\ ~RestoreArgsRaise(td.d)
                 /\ session' = RestoredSession(td.d, FALSE)
    /\ pc' = "reauth"
    /\ Event([op |-> "load_oauth_session", ok |-> FALSE])
    /\ UNCHANGED <<tokenFile, inputVars, importVars>>

\* lines 35-38: load_token returned None
AuthNoToken ==
    /\ pc = "authenticate"
    /\ load_token(tokenFile).kind = "None"
    /\ session' = NewSession
    /\ pc' = "reauth"
    /\ UNCHANGED <<tokenFile, inputVars, importVars, events>>

\* line 27: the file holds a JSON number or null; the TypeError is not caught
AuthLoadCrash ==
    /\ pc = "authenticate"
    /\ load_token(tokenFile).kind = "raise"
    /\ session' = NewSession
    /\ pc' = "crashed"
    /\ UNCHANGED <<tokenFile, inputVars, importVars, events>>

\* lines 53-54 left out: the login starts with the file still there
ReauthKeepFile ==
    /\ pc = "reauth"
    /\ pc' = "login"
    /\ UNCHANGED <<authVars, inputVars, importVars, events>>

\* lines 53-54
ReauthRemove ==
    /\ pc = "reauth"
    /\ IF tokenFile.exists
       THEN tokenFile' = NoFile /\ Event([op |-> "remove"])
       ELSE UNCHANGED <<tokenFile, events>>
    /\ pc' = "login"
    /\ UNCHANGED <<session, inputVars, importVars>>

\* line 56: the user completes the interactive login
LoginOk ==
    /\ pc = "login"
    /\ \E s \in LoginSessions : session' = s
    /\ pc' = "save_token"
    /\ Event([op |-> "login_oauth_simple", outcome |-> "ok"])
    /\ UNCHANGED <<tokenFile, inputVars, importVars>>

\* line 56: the login flow fails with an exception (the link expires)
LoginRaises ==
    /\ pc = "login"
    /\ pc' = "crashed"
    /\ Event([op |-> "login_oauth_simple", outcome |-> "raise"])
    /\ UNCHANGED <<authVars, inputVars, importVars>>

\* line 56: the login flow returns and the session is not logged in
LoginReturnsLoggedOut ==
    /\ pc = "login"
    /\ pc' = "save_token"
    /\ Event([op |-> "login_oauth_simple", outcome |-> "logged_out"])
    /\ UNCHANGED <<authVars, inputVars, importVars>>

\* line 57: save_token(session) writes the file
SaveToken ==
    /\ pc = "save_token"
    /\ ~SaveTokenRaises(session)
    /\ tokenFile' = save_token(session)
    /\ pc' = "guard"
    /\ Event([op |-> "save_token"])
    /\ UNCHANGED <<session, inputVars, importVars>>

\* line 57, line 15: session.expiry_time is None or an int: AttributeError
SaveTokenCrash ==
    /\ pc = "save_token"
    /\ SaveTokenRaises(session)
    /\ pc' = "crashed"
    /\ UNCHANGED <<authVars, inputVars, importVars, events>>

\* lines 131-133: the service confirms the login and the guard passes
GuardPass ==
    /\ pc = "guard"
    /\ check_login(session)
    /\ pc' = "load_library"
    /\ UNCHANGED <<authVars, inputVars, importVars, events>>

\* lines 131-132, 135-136: the guard fails and the failure message is printed.
\* check_login is a request to the service: it fails for a session that never
\* logged in, and may fail for one that did (the token was revoked meanwhile).
GuardFail ==
    /\ pc = "guard"
    /\ session' = [session EXCEPT !.logged_in = FALSE]
    /\ pc' = "done"
    /\ Event([op |-> "print_authentication_failed"])
    /\ UNCHANGED <<tokenFile, inputVars, importVars>>

-----------------------------------------------------------------------------
(* Library loader: load_library (lines 60-65) *)

Row(p, t, a) == [playlist |-> p, track |-> t, artist |-> a]

\* DataFrame.drop_duplicates(subset="Track name", keep="first"): a row goes when
\* an earlier row has an equal track name; seen holds the track names so far
RECURSIVE DropDuplicatesFrom(_, _)
DropDuplicatesFrom(rows, seen) ==
    IF rows = <<>> THEN <<>>
    ELSE IF Head(rows).track \in seen
         THEN DropDuplicatesFrom(Tail(rows), seen)
         ELSE <<Head(rows)>> \o DropDuplicatesFrom(Tail(rows), seen \cup {Head(rows).track})

\* line 64 with keep="last": a row goes when a later row has an equal track name
drop_duplicates_keep_last(rows) ==
    LET keep == {k \in DOMAIN rows :
                    \A j \in (k + 1)..Len(rows) : rows[j].track # rows[k].track}
        nth(m) == CHOOSE k \in keep : Cardinality({j \in keep : j <= k}) = m
    IN  [m \in 1..Cardinality(keep) |-> rows[nth(m)]]

\* line 64
drop_duplicates(rows) == DropDuplicatesFrom(rows, {})

\* lines 62-65
load_library(tidal, spotify) == drop_duplicates(tidal \o spotify)

-----------------------------------------------------------------------------
(* The remote service: playlists, their tracks, the catalog *)

Playlist(nm, tr) == [name |-> nm, tracks |-> tr]

\* the catalog's tracks: id -> name
TrackIds == {1, 2, 3}
TrackName(id) ==
    CASE id = 1 -> <<"S">>
      [] id = 2 -> <<"s">>
      [] id = 3 -> <<"t">>
Track(id) == [id |-> id, name |-> TrackName(id)]

SearchNone       == [t |-> "None"]
SearchDict(c, l) == [t |-> "dict", categories |-> c, tracks |-> l]

\* answers session.search(query) may give
SearchResults ==
    { SearchNone,
      SearchDict({"artists"}, <<>>),
      SearchDict({"tracks"}, <<>>),
      SearchDict({"tracks"}, <<Track(1)>>),
      SearchDict({"tracks"}, <<Track(2)>>),
      SearchDict({"tracks", "artists"}, <<Track(3), Track(1)>>) }

\* line 109: search_result and "tracks" in search_result and search_result["tracks"]
HasTracks(res) ==
    /\ res.t # "None"
    /\ res.categories # {}
    /\ "tracks" \in res.categories
    /\ res.tracks # <<>>

\* a track list fetched on the playlist's first use and kept for the run
PlaylistTracksFirstFetch(pl) ==
    LET fetches == {i \in DOMAIN events : events[i].op = "tracks" /\ events[i].pl = pl}
    IN  IF fetches = {}
        THEN [k \in 1..Len(remote[pl].tracks) |->
                 [id |-> remote[pl].tracks[k], name |-> TrackName(remote[pl].tracks[k])]]
        ELSE events[CHOOSE i \in fetches : \A i2 \in fetches : i <= i2].result

\* playlist.tracks(): the playlist's current tracks on the service
PlaylistTracks(pl) == [k \in 1..Len(remote[pl].tracks) |-> Track(remote[pl].tracks[k])]

\* line 103: the keys of existing_tracks
ExistingTracks(tracks) == {Lower(tracks[k].name) : k \in 1..Len(tracks)}

-----------------------------------------------------------------------------
(* Playlist resolver: get_or_create_playlists (lines 67-82) *)

\* Series.unique(): the distinct values in order of first appearance
RECURSIVE UniqueFrom(_, _)
UniqueFrom(xs, seen) ==
    IF xs = <<>> THEN <<>>
    ELSE IF Head(xs) \in seen
         THEN UniqueFrom(Tail(xs), seen)
         ELSE <<Head(xs)>> \o UniqueFrom(Tail(xs), seen \cup {Head(xs)})

\* song_data["Playlist name"].unique() (line 86)
unique(rows) == UniqueFrom([k \in 1..Len(rows) |-> rows[k].playlist], {})

EmptyDict == [k \in {} |-> 0]

\* d[k] = v
DictPut(d, k, v) == [x \in DOMAIN d \cup {k} |-> IF x = k THEN v ELSE d[x]]

\* line 69: {p.name.lower(): p for p in user.playlists()}; a later playlist
\* replaces an earlier one of the same lowercased name
ExistingMap(pls) ==
    [k \in {Lower(pls[j].name) : j \in 1..Len(pls)} |->
        CHOOSE j \in 1..Len(pls) :
            /\ Lower(pls[j].name) = k
            /\ \A j2 \in 1..Len(pls) : Lower(pls[j2].name) = k => j2 <= j]

\* line 73
NameLower(nm) == Lower(nm)

\* line 74: the test that decides between reuse and creation
AlreadyExists(key) == key \in DOMAIN existing_playlists

\* lines 86, 69-70: the call, the fetch of the user's playlists
ResolveBegin ==
    /\ pc = "resolve"
    /\ playlist_names' = unique(song_data)
    /\ existing_playlists' = ExistingMap(remote)
    /\ playlists' = EmptyDict
    /\ n' = 1
    /\ pc' = "resolve_loop"
    /\ Event([op |-> "playlists"])
    /\ UNCHANGED <<authVars, inputVars, remote, song_data, r, not_found_tracks, report>>

\* lines 72-76: the name exists among the fetched playlists
ResolveExisting ==
    /\ pc = "resolve_loop"
    /\ n <= Len(playlist_names)
    /\ LET key == NameLower(playlist_names[n])
       IN  /\ AlreadyExists(key)
           /\ playlists' = DictPut(playlists, key, existing_playlists[key])
    /\ n' = n + 1
    /\ UNCHANGED <<pc, authVars, inputVars, remote, song_data, playlist_names,
                   existing_playlists, r, not_found_tracks, report, events>>

\* lines 72-73, 77-80: the name is created
ResolveCreate ==
    /\ pc = "resolve_loop"
    /\ n <= Len(playlist_names)
    /\ LET key == NameLower(playlist_names[n])
       IN  /\ ~AlreadyExists(key)
           /\ remote' = Append(remote, Playlist(playlist_names[n], <<>>))
           /\ playlists' = DictPut(playlists, key, Len(remote) + 1)
           /\ Event([op |-> "create_playlist", name |-> playlist_names[n],
                     pl |-> Len(remote) + 1])
    /\ n' = n + 1
    /\ UNCHANGED <<pc, authVars, inputVars, song_data, playlist_names,
                   existing_playlists, r, not_found_tracks, report>>

\* lines 82, 87: the mapping is returned, the unmatched list starts empty
ResolveReturn ==
    /\ pc = "resolve_loop"
    /\ n > Len(playlist_names)
    /\ not_found_tracks' = <<>>
    /\ r' = 1
    /\ pc' = "rows"
    /\ UNCHANGED <<authVars, inputVars, remote, song_data, playlist_names,
                   existing_playlists, playlists, n, report, events>>

-----------------------------------------------------------------------------
(* Import engine: add_songs_to_playlists (lines 84-127) *)

\* line 94 looking up the name as the resolver keyed it, untrimmed
PlaylistKeyUntrimmed(nm) == Lower(nm)

\* lines 90, 94: the key looked up for a row's playlist name
PlaylistKey(nm) == Lower(Strip(nm))

\* line 106
SearchQuery(track_name, artist_name) ==
    IF artist_name # <<>> THEN track_name \o <<" ">> \o artist_name ELSE track_name

\* lines 97 and 120 with the row's raw fields
NotFoundEntryUntrimmed(row) ==
    [playlist |-> row.playlist, track |-> row.track, artist |-> row.artist]

\* lines 97 and 120: the entry appended to not_found_tracks
NotFoundEntry(row) ==
    [playlist |-> Strip(row.playlist), track |-> Strip(row.track),
     artist |-> Strip(row.artist)]

\* line 113 without .lower() on the found track's name
AlreadyInPlaylistCaseSensitive(track, existing_tracks) == track.name \in existing_tracks

\* line 113
AlreadyInPlaylist(track, existing_tracks) == Lower(track.name) \in existing_tracks

\* playlist.add([track_id]) (line 116): the track goes to the end of the playlist
PlaylistAdd(pls, pl, id) ==
    [pls EXCEPT ![pl].tracks = Append(@, id)]

RowEvents(pl, fetched, query, res) ==
    << [op |-> "tracks", rec |-> r, pl |-> pl, result |-> fetched],
       [op |-> "search", rec |-> r, query |-> query, result |-> res] >>

rowFrame == <<pc, authVars, inputVars, song_data, playlist_names,
              existing_playlists, playlists, n, report>>

\* lines 89-98: the row's playlist is not in the mapping
RowPlaylistNotFound ==
    /\ pc = "rows"
    /\ r <= Len(song_data)
    /\ PlaylistKey(song_data[r].playlist) \notin DOMAIN playlists
    /\ not_found_tracks' = Append(not_found_tracks, NotFoundEntry(song_data[r]))
    /\ Event([op |-> "not_found", rec |-> r, why |-> "playlist",
              entry |-> NotFoundEntry(song_data[r])])
    /\ r' = r + 1
    /\ UNCHANGED <<rowFrame, remote>>

\* lines 89-109, 118-120: the search gives no track
RowTrackNotFound ==
    /\ pc = "rows"
    /\ r <= Len(song_data)
    /\ PlaylistKey(song_data[r].playlist) \in DOMAIN playlists
    /\ LET row     == song_data[r]
           pl      == playlists[PlaylistKey(row.playlist)]
           fetched == PlaylistTracks(pl)
           query   == SearchQuery(Strip(row.track), Strip(row.artist))
       IN  \E res \in SearchResults :
             /\ ~HasTracks(res)
             /\ not_found_tracks' = Append(not_found_tracks, NotFoundEntry(row))
             /\ events' = events \o RowEvents(pl, fetched, query, res)
                            \o << [op |-> "not_found", rec |-> r, why |-> "track",
                                   entry |-> NotFoundEntry(row)] >>
    /\ r' = r + 1
    /\ UNCHANGED <<rowFrame, remote>>

\* lines 89-114: the first track found is already in the playlist
RowAlreadyPresent ==
    /\ pc = "rows"
    /\ r <= Len(song_data)
    /\ PlaylistKey(song_data[r].playlist) \in DOMAIN playlists
    /\ LET row     == song_data[r]
           pl      == playlists[PlaylistKey(row.playlist)]
           fetched == PlaylistTracks(pl)
           query   == SearchQuery(Strip(row.track), Strip(row.artist))
       IN  \E res \in SearchResults :
             /\ HasTracks(res)
             /\ AlreadyInPlaylist(res.tracks[1], ExistingTracks(fetched))
             /\ events' = events \o RowEvents(pl, fetched, query, res)
    /\ r' = r + 1
    /\ UNCHANGED <<rowFrame, remote, not_found_tracks>>

\* lines 89-113, 115-117: the first track found is added to the playlist
RowAdd ==
    /\ pc = "rows"
    /\ r <= Len(song_data)
    /\ PlaylistKey(song_data[r].playlist) \in DOMAIN playlists
    /\ LET row     == song_data[r]
           pl      == playlists[PlaylistKey(row.playlist)]
           fetched == PlaylistTracks(pl)
           query   == SearchQuery(Strip(row.track), Strip(row.artist))
       IN  \E res \in SearchResults :
             /\ HasTracks(res)
             /\ ~AlreadyInPlaylist(res.tracks[1], ExistingTracks(fetched))
             /\ remote' = PlaylistAdd(remote, pl, res.tracks[1].id)
             /\ events' = events \o RowEvents(pl, fetched, query, res)
                            \o << [op |-> "add", rec |-> r, pl |-> pl,
                                   id |-> res.tracks[1].id] >>
    /\ r' = r + 1
    /\ UNCHANGED <<rowFrame, not_found_tracks>>

\* lines 122-125: the unmatched rows are written to NOT_FOUND_FILE
FinishWithReport ==
    /\ pc = "rows"
    /\ r > Len(song_data)
    /\ not_found_tracks # <<>>
    /\ report' = [exists |-> TRUE, rows |-> not_found_tracks]
    /\ pc' = "done"
    /\ Event([op |-> "to_csv"])
    /\ UNCHANGED <<authVars, inputVars, remote, song_data, playlist_names,
                   existing_playlists, playlists, n, r, not_found_tracks>>

\* lines 122-123, 126-127: nothing is unmatched, no file is written
FinishAllAdded ==
    /\ pc = "rows"
    /\ r > Len(song_data)
    /\ not_found_tracks = <<>>
    /\ pc' = "done"
    /\ UNCHANGED <<authVars, inputVars, importVars, events>>

\* line 133
LoadLibrary ==
    /\ pc = "load_library"
    /\ song_data' = load_library(tidal_csv, spotify_csv)
    /\ pc' = "resolve"
    /\ Event([op |-> "load_library"])
    /\ UNCHANGED <<authVars, inputVars, remote, playlist_names, existing_playlists,
                   playlists, n, r, not_found_tracks, report>>

-----------------------------------------------------------------------------
(* Inputs *)

\* rows a CSV file may hold
PlaylistNames == { <<"a">>, <<"A">>, <<"a", " ">> }
Rows ==
    { Row(p, <<"x">>, <<"q">>) : p \in PlaylistNames }
    \cup { Row(p, <<"y", " ">>, IF p = <<"A">> THEN <<" ">> ELSE <<>>) : p \in PlaylistNames }

RECURSIVE SeqsOfLen(_, _)
SeqsOfLen(S, k) ==
    IF k = 0 THEN { <<>> }
    ELSE { Append(q, x) : q \in SeqsOfLen(S, k - 1), x \in S }

RECURSIVE SeqsUpTo(_, _)
SeqsUpTo(S, k) == IF k = 0 THEN { <<>> } ELSE SeqsOfLen(S, k) \cup SeqsUpTo(S, k - 1)

\* the two files: every split of every row sequence of at most MaxRows rows
Libraries ==
    UNION { { <<SubSeq(q, 1, k), SubSeq(q, k + 1, Len(q))>> : k \in 0..Len(q) } :
              q \in SeqsUpTo(Rows, MaxRows) }

\* the user's playlists on the service when the script starts
RemoteInits ==
    { <<>>,
      << Playlist(<<"A">>, <<>>) >>,
      << Playlist(<<"a">>, <<1>>) >>,
      << Playlist(<<"a">>, <<3>>), Playlist(<<"A">>, <<2>>) >> }

\* the libraries of the whole-script specification
SampleLibraries ==
    { << <<Row(<<"a">>, <<"x">>, <<"q">>)>>, <<Row(<<"a", " ">>, <<"y", " ">>, <<>>)>> >>,
      << <<Row(<<"a", " ">>, <<"x">>, <<"q">>), Row(<<"A">>, <<"x">>, <<>>)>>, <<>> >> }

NoReport == [exists |-> FALSE, rows |-> <<>>]

\* locals not yet assigned
InitLocals ==
    /\ song_data = <<>>
    /\ playlist_names = <<>>
    /\ existing_playlists = EmptyDict
    /\ playlists = EmptyDict
    /\ n = 0
    /\ r = 0
    /\ not_found_tracks = <<>>
    /\ report = NoReport

-----------------------------------------------------------------------------
(* The whole script: line 130 on *)

Init ==
    /\ pc = "authenticate"
    /\ tokenFile \in TokenFiles
    /\ session = NewSession
    /\ \E lib \in SampleLibraries : tidal_csv = lib[1] /\ spotify_csv = lib[2]
    /\ remote \in {<<>>, << Playlist(<<"a">>, <<1>>) >>}
    /\ InitLocals
    /\ events = <<>>

AuthNext ==
    \/ AuthRestoreOk
    \/ AuthRestoreFail
    \/ AuthNoToken
    \/ AuthLoadCrash
    \/ ReauthRemove
    \/ LoginOk
    \/ LoginRaises
    \/ LoginReturnsLoggedOut
    \/ SaveToken
    \/ SaveTokenCrash
    \/ GuardPass
    \/ GuardFail

ImportNext ==
    \/ LoadLibrary
    \/ ResolveBegin
    \/ ResolveExisting
    \/ ResolveCreate
    \/ ResolveReturn
    \/ RowPlaylistNotFound
    \/ RowTrackNotFound
    \/ RowAlreadyPresent
    \/ RowAdd
    \/ FinishWithReport
    \/ FinishAllAdded

Next == AuthNext \/ ImportNext

Spec == Init /\ [][Next]_vars

\* The import alone: the script at line 133, logged in with the saved token,
\* over every library and every remote state of the bounds.
InitImport ==
    /\ pc = "load_library"
    /\ tokenFile = save_token(OldSession)
    /\ session = RestoredSession(load_token(save_token(OldSession)).d, TRUE)
    /\ \E lib \in Libraries : tidal_csv = lib[1] /\ spotify_csv = lib[2]
    /\ remote \in RemoteInits
    /\ InitLocals
    /\ events = << [op |-> "load_oauth_session", ok |-> TRUE] >>

SpecImport == InitImport /\ [][ImportNext]_vars

-----------------------------------------------------------------------------
(* Vocabulary of the properties *)

\* the rows the loop of add_songs_to_playlists has finished
Processed == 1..(r - 1)

\* the calls of one kind made for row k
CallsFor(op, k) == {i \in DOMAIN events : events[i].op = op /\ events[i].rec = k}

IsNotFound(e) == e.op = "not_found"

\* not_found_tracks holds exactly the entries appended for the rows, in order
UnmatchedListIsTheAppends ==
    LET a == SelectSeq(events, IsNotFound)
    IN  not_found_tracks = [i \in 1..Len(a) |-> a[i].entry]

\* a search answer that is nothing, has no "tracks" category, or no track
NoTrackFound(res) ==
    \/ res = SearchNone
    \/ /\ res.t = "dict"
       /\ ("tracks" \notin res.categories \/ Len(res.tracks) = 0)

TrimmedEntry(row) ==
    [playlist |-> RStrip(LStrip(row.playlist)), track |-> RStrip(LStrip(row.track)),
     artist |-> RStrip(LStrip(row.artist))]

-----------------------------------------------------------------------------
(* Playlist resolver *)

\* C1: get_or_create_playlists never calls create_playlist for a name whose
\* lowercased form equals the lowercased name of a playlist that exists at the
\* time of the call, whether it existed before the run or was created earlier
\* in the same call.  (The playlist a call creates is remote[pl]; the ones
\* that existed at the call are remote[1..pl-1].)
C1_NeverCreatesExistingName ==
    \A i \in DOMAIN events :
        events[i].op = "create_playlist" =>
            \A q \in 1..(events[i].pl - 1) :
                Lower(remote[q].name) # Lower(events[i].name)

-----------------------------------------------------------------------------
(* Import engine *)

\* C2: for every row whose first search result has a lowercased name in the
\* lowercased track-name set fetched from the row's playlist, no add call is
\* made and no unmatched entry is appended.
C2_PresentTrackIsSkipped ==
    /\ UnmatchedListIsTheAppends
    /\ \A k \in Processed :
         \A i \in CallsFor("tracks", k), j \in CallsFor("search", k) :
            ( /\ ~NoTrackFound(events[j].result)
              /\ \E m \in DOMAIN events[i].result :
                    Lower(events[i].result[m].name) = Lower(events[j].result.tracks[1].name) )
            => /\ CallsFor("add", k) = {}
               /\ CallsFor("not_found", k) = {}
               /\ LET pl    == events[i].pl
                      later == {a \in DOMAIN events :
                                  a > j /\ events[a].op = "add" /\ events[a].pl = pl}
                  IN  SubSeq(remote[pl].tracks, 1,
                             Len(remote[pl].tracks) - Cardinality(later))
                        = [m \in DOMAIN events[i].result |-> events[i].result[m].id]

\* A row was skipped because the playlist holds the track under a name that
\* differs in case from the one the search returned.
C2_Witness ==
    \E k \in Processed :
        \E i \in CallsFor("tracks", k), j \in CallsFor("search", k) :
            /\ ~NoTrackFound(events[j].result)
            /\ \E m \in DOMAIN events[i].result :
                  /\ Lower(events[i].result[m].name) = Lower(events[j].result.tracks[1].name)
                  /\ events[i].result[m].name # events[j].result.tracks[1].name
            /\ \A m \in DOMAIN events[i].result :
                  events[i].result[m].name # events[j].result.tracks[1].name

\* C3: a row whose trimmed, lowercased playlist name is not a key of the
\* mapping gets exactly one unmatched entry {playlist, track, artist} and no
\* search, no track-list fetch and no add call.
C3_PlaylistNotFound ==
    /\ UnmatchedListIsTheAppends
    /\ \A k \in Processed :
         Lower(RStrip(LStrip(song_data[k].playlist))) \notin DOMAIN playlists
         => /\ Cardinality(CallsFor("not_found", k)) = 1
            /\ \A i \in CallsFor("not_found", k) :
                  events[i].entry = TrimmedEntry(song_data[k])
            /\ CallsFor("search", k) = {}
            /\ CallsFor("tracks", k) = {}
            /\ CallsFor("add", k) = {}

\* A processed row's playlist was not in the mapping although the resolver
\* was given that row's playlist name.
C3_Witness ==
    \E k \in Processed :
        /\ Lower(RStrip(LStrip(song_data[k].playlist))) \notin DOMAIN playlists
        /\ Len(not_found_tracks) > 0

\* C4: a row whose playlist is resolved and whose search returns nothing, no
\* "tracks" category or an empty list gets exactly one unmatched entry with
\* its trimmed playlist, track and artist names, and no add call.
C4_TrackNotFound ==
    /\ UnmatchedListIsTheAppends
    /\ \A k \in Processed :
         \A j \in CallsFor("search", k) :
            NoTrackFound(events[j].result)
            => /\ Cardinality(CallsFor("not_found", k)) = 1
               /\ \A i \in CallsFor("not_found", k) :
                     events[i].entry = TrimmedEntry(song_data[k])
               /\ CallsFor("add", k) = {}

\* A search returned a dict without the "tracks" category for a row whose
\* names carry whitespace, and a later row was processed too.
C4_Witness ==
    \E k \in Processed :
        /\ k + 1 \in Processed
        /\ song_data[k].track # Strip(song_data[k].track)
        /\ \E j \in CallsFor("search", k) :
              /\ events[j].result # SearchNone
              /\ "tracks" \notin events[j].result.categories

\* C10: every row finds its playlist in the mapping: no row is reported for
\* the reason "playlist not found".
C10_EveryRowFindsItsPlaylist ==
    \A i \in DOMAIN events :
        ~(events[i].op = "not_found" /\ events[i].why = "playlist")

\* C8 as stated: within one run the track list of each remote playlist is
\* fetched at most once.
C8_FetchedAtMostOncePerPlaylist ==
    \A p \in 1..Len(remote) :
        Cardinality({i \in DOMAIN events :
                        events[i].op = "tracks" /\ events[i].pl = p}) <= 1

\* C8 (amended): the track list of the target playlist is fetched once for
\* every row whose playlist is resolved, and what each fetch returns is the
\* playlist as it is then: the tracks it holds now less those added after the
\* fetch, so it includes the tracks added for earlier rows of the same run.
C8_FetchedForEveryResolvedRow ==
    /\ \A k \in Processed :
          Cardinality(CallsFor("tracks", k)) =
              IF Lower(RStrip(LStrip(song_data[k].playlist))) \in DOMAIN playlists
              THEN 1 ELSE 0
    /\ \A i \in DOMAIN events :
          events[i].op = "tracks" =>
              LET pl    == events[i].pl
                  later == {a \in DOMAIN events :
                              a > i /\ events[a].op = "add" /\ events[a].pl = pl}
              IN  [m \in DOMAIN events[i].result |-> events[i].result[m].id]
                    = SubSeq(remote[pl].tracks, 1,
                             Len(remote[pl].tracks) - Cardinality(later))

\* The same playlist was fetched for two rows, and the second fetch returned
\* the track added for the first.
C8_Witness ==
    \E i, j \in DOMAIN events :
        /\ i < j
        /\ events[i].op = "tracks"
        /\ events[j].op = "tracks"
        /\ events[i].pl = events[j].pl
        /\ Len(events[j].result) = Len(events[i].result) + 1

-----------------------------------------------------------------------------
(* Library loader *)

\* the rows of c that no earlier row of c shares its track name with
FirstOccurrences(c) ==
    LET keep == {k \in DOMAIN c : \A j \in 1..(k - 1) : c[j].track # c[k].track}
        nth(m) == CHOOSE k \in keep : Cardinality({j \in keep : j <= k}) = m
    IN  [m \in 1..Cardinality(keep) |-> c[nth(m)]]

\* C5: load_library returns the first file's rows followed by the second
\* file's, less every row whose track name equals that of an earlier row; the
\* survivors keep their order.
C5_FirstOccurrenceKept ==
    pc \notin {"authenticate", "reauth", "login", "save_token", "guard", "load_library"}
    => song_data = FirstOccurrences(tidal_csv \o spotify_csv)

\* load_library dropped a row of the second file whose track name a row of
\* the first file has, and the dropped row differs from the kept one.
C5_Witness ==
    /\ pc = "resolve"
    /\ \E k \in DOMAIN spotify_csv, j \in DOMAIN tidal_csv :
          /\ spotify_csv[k].track = tidal_csv[j].track
          /\ spotify_csv[k] # tidal_csv[j]
    /\ Len(song_data) < Len(tidal_csv) + Len(spotify_csv)

-----------------------------------------------------------------------------
(* Credential store and authenticator *)

\* the whole number of seconds nearest to zero-ward of a time given in ticks
TruncatedSeconds(ticks) ==
    CHOOSE k \in -(ticks * ticks + 1)..(ticks * ticks + 1) :
        IF ticks >= 0
        THEN k * TicksPerSecond <= ticks /\ ticks < (k + 1) * TicksPerSecond
        ELSE (k - 1) * TicksPerSecond < ticks /\ ticks <= k * TicksPerSecond

SaveTokenJustRan ==
    /\ pc = "guard"
    /\ events # <<>>
    /\ events[Len(events)].op = "save_token"

\* C6: after save_token(session), load_token() returns a record whose
\* token_type, access_token and refresh_token are the session's and whose
\* expiry_time is the session's expiry truncated to whole epoch seconds.
C6_TokenRoundTrip ==
    SaveTokenJustRan =>
        LET td == load_token(tokenFile)
        IN  /\ td.kind = "data"
            /\ DOMAIN td.d = {"token_type", "access_token", "refresh_token", "expiry_time"}
            /\ td.d["token_type"] = session.token_type
            /\ td.d["access_token"] = session.access_token
            /\ td.d["refresh_token"] = session.refresh_token
            /\ td.d["expiry_time"] = Num(TruncatedSeconds(session.expiry_time.v))

\* save_token ran for a session without a refresh token whose expiry is not a
\* whole number of seconds.
C6_Witness ==
    /\ SaveTokenJustRan
    /\ session.refresh_token = None
    /\ session.expiry_time.v % TicksPerSecond # 0

LoginFailed ==
    \E i \in DOMAIN events :
        events[i].op = "login_oauth_simple" /\ events[i].outcome # "ok"

\* C7: when the interactive login does not succeed the run does not crash:
\* authenticate returns, the guard is reached, the failure message is printed
\* and neither load_library nor add_songs_to_playlists runs.
C7_LoginFailureReachesGuard ==
    LoginFailed =>
        /\ pc # "crashed"
        /\ pc \in {"save_token", "guard", "done"}
        /\ pc = "done" =>
              \E i \in DOMAIN events : events[i].op = "print_authentication_failed"
        /\ \A i \in DOMAIN events :
              events[i].op \notin {"load_library", "playlists", "create_playlist", "add"}

\* the stored token restores the session: it loads to a record, the restore
\* raises nothing and check_login confirms the session
RestoreSucceeds ==
    /\ pc = "authenticate"
    /\ load_token(tokenFile).kind = "data"
    /\ session'.logged_in

NewEvents == SubSeq(events', Len(events) + 1, Len(events'))

====
